---- MODULE Spec2Model ----
(***************************************************************************)
(* reprotest: build a source tree twice under varied conditions and diff   *)
(* the two artifacts.  The model follows reprotest/__init__.py: the        *)
(* variation context managers, the VARIATIONS registry, build(), check()   *)
(* and the part of main() that resolves the variation selection.           *)
(*                                                                         *)
(* Paths are sequences of path components, dictionaries are functions      *)
(* whose DOMAIN is the set of keys present, commands are sequences of      *)
(* tokens.  An optional value (a key of an options mapping) is present     *)
(* exactly when the key is in the DOMAIN.                                  *)
(***************************************************************************)
EXTENDS Integers, Sequences, FiniteSets, TLC

\* ------------------------------------------------------------------ bounds

\* Longest variation list given out of registry order (arbitrary sequences,
\* duplicates and unknown names included).
MaxListed == 2
\* Largest exit status a build command returns (0 = success).
MaxBuildStatus == 1
\* Largest exit status the diff tool returns.
MaxDiffStatus == 3

\* Longest list of distinct registered variations applied in a listed order.
MaxOrdered == 3

\* ------------------------------------------------------- program constants

\* sys.exit(2): the fixed failure status.
FAILURE_STATUS == 2
\* Exit status of the interpreter when an exception is never caught.
UNCAUGHT_STATUS == 1
\* Width of a process exit status: sys.exit(n) reports n modulo 256.
STATUS_MODULUS == 256

\* ------------------------------------------------------------ dictionaries

\* d[k] = v
SetItem(d, k, v) == [x \in (DOMAIN d) \cup {k} |-> IF x = k THEN v ELSE d[x]]

Range(s) == {s[i] : i \in DOMAIN s}

\* ------------------------------------------------------------------- paths

\* pathlib: p.parent
Parent(p) == SubSeq(p, 1, Len(p) - 1)

\* os.path.normpath on an absolute path: "." is dropped, ".." removes the
\* component before it (and is dropped at the root).
RECURSIVE NormFrom(_, _)
NormFrom(done, rest) ==
    IF rest = <<>> THEN done
    ELSE IF Head(rest) = "." THEN NormFrom(done, Tail(rest))
    ELSE IF Head(rest) = ".."
         THEN NormFrom(IF done = <<>> THEN done ELSE Parent(done), Tail(rest))
    ELSE NormFrom(Append(done, Head(rest)), Tail(rest))

normpath(p) == NormFrom(<<>>, p)

\* ' '.join(command)
RECURSIVE join(_)
join(command) ==
    IF command = <<>> THEN ""
    ELSE IF Len(command) = 1 THEN command[1]
    ELSE command[1] \o " " \o join(Tail(command))

\* -------------------------------------------------------------- variations
\* A context is the tuple (command1, command2, env1, env2, tree1, tree2)
\* every variation receives and yields.

\* The variable is written to a dict both sides share.
captures_environment_shared(c) ==
    [c EXCEPT !.env1 = SetItem(@, "CAPTURE_ENVIRONMENT", "i_capture_the_environment"),
              !.env2 = SetItem(@, "CAPTURE_ENVIRONMENT", "i_capture_the_environment")]

captures_environment(c) ==
    [c EXCEPT !.env2 = SetItem(@, "CAPTURE_ENVIRONMENT", "i_capture_the_environment")]

domain_host(c) == c

\* tree2.parent/'disorderfs'
disorderfs(c) == Append(Parent(c.tree2), "disorderfs")

\* What fileordering yields once the overlay is mounted.
fileordering(c) == [c EXCEPT !.tree2 = disorderfs(c)]

home(c) ==
    [c EXCEPT !.env1 = SetItem(@, "HOME", "/nonexistent/first-build"),
              !.env2 = SetItem(@, "HOME", "/nonexistent/second-build")]

\* The prefix is built and dropped.
kernel_skipped(c) == c

kernel(c) == [c EXCEPT !.command2 = <<"linux64", "--uname-2.6">> \o @]

locales(c) ==
    [c EXCEPT !.env2 = SetItem(SetItem(@, "LANG", "fr_CH.UTF-8"),
                               "LC_ALL", "fr_CH.UTF-8")]

\* env1['PATH'] raises KeyError when PATH is not set.
path_raises(c) == "PATH" \notin DOMAIN c.env1

\* The second environment is rebuilt from the first one.
path_rebuilds_env2(c) ==
    [c EXCEPT !.env2 = SetItem(c.env1, "PATH", c.env1["PATH"] \o "/i_capture_the_path")]

path(c) == [c EXCEPT !.env2 = SetItem(@, "PATH", c.env1["PATH"] \o "/i_capture_the_path")]

shell(c) == c

timezone(c) ==
    [c EXCEPT !.env1 = SetItem(@, "TZ", "GMT+12"),
              !.env2 = SetItem(@, "TZ", "GMT-14")]

\* The prefix is put in front of the first command instead of the second.
umask_on_original(c) == [c EXCEPT !.command2 = <<"umask", "0002;">> \o c.command1]

umask(c) == [c EXCEPT !.command2 = <<"umask", "0002;">> \o @]

user_group(c) == c

\* The registry, in its declared order.
VARIATIONS ==
    << "captures_environment", "domain_host", "fileordering", "home", "kernel",
       "locales", "path", "shell", "timezone", "umask", "user_group" >>

Registered == Range(VARIATIONS)

\* VARIATIONS[variation](...) for the variations that touch nothing outside
\* the context.
Yielded(variation, c) ==
    CASE variation = "captures_environment" -> captures_environment(c)
      [] variation = "domain_host"          -> domain_host(c)
      [] variation = "fileordering"         -> fileordering(c)
      [] variation = "home"                 -> home(c)
      [] variation = "kernel"               -> kernel(c)
      [] variation = "locales"              -> locales(c)
      [] variation = "path"                 -> path(c)
      [] variation = "shell"                -> shell(c)
      [] variation = "timezone"             -> timezone(c)
      [] variation = "umask"                -> umask(c)
      [] variation = "user_group"           -> user_group(c)

\* ---------------------------------------------------------------- main()

\* A mapping with no keys.
Empty == [k \in {} |-> <<>>]

\* options.get(key, default)
Get(options, key, default) == IF key \in DOMAIN options THEN options[key] ELSE default

\* frozenset(a list of names)
frozenset(names) == Range(names)

\* The selection main() computes from the config file and the command line,
\* before the order is restored.
Selected(config_options, command_line_options) ==
    LET v0 == Registered
        v1 == IF "variations" \in DOMAIN config_options
              THEN frozenset(config_options["variations"]) ELSE v0
        v2 == IF "dont_vary" \in DOMAIN config_options
              THEN v1 \ frozenset(config_options["dont_vary"]) ELSE v1
        v3 == IF "variations" \in DOMAIN command_line_options
              THEN frozenset(command_line_options["variations"]) ELSE v2
    IN  IF "dont_vary" \in DOMAIN command_line_options
        THEN v3 \ frozenset(command_line_options["dont_vary"]) ELSE v3

\* The selection listed from the end of the registry.
RestoreOrder_Backwards(variations) ==
    SelectSeq([i \in 1..Len(VARIATIONS) |-> VARIATIONS[Len(VARIATIONS) + 1 - i]],
              LAMBDA v : v \in variations)

\* [v for v in VARIATIONS if v in variations]
RestoreOrder(variations) == SelectSeq(VARIATIONS, LAMBDA v : v \in variations)

\* ------------------------------------------------------------------ inputs

\* A name the registry does not hold.
Unregistered == "bogus"

\* The names the out-of-order lists are made of: the variations that
\* allocate or can fail (fileordering, path), that write both sides (home),
\* that prefix the command (kernel, umask), and a name that is not registered.
Names == {"fileordering", "home", "kernel", "path", "umask", Unregistered}

\* Every list of at most MaxListed of these names, in any order, repeats
\* included.
ShortLists == UNION {[1..n -> Names] : n \in 0..MaxListed}

\* Every set of registered names, listed in registry order.
Orderly == {RestoreOrder(S) : S \in SUBSET Registered}

\* A few fixed lists for the options that are combined with others.
Samples == { <<"kernel">>, <<"umask", "fileordering">>, <<Unregistered>> }

BuildCommand == <<"make", "dist">>

ArtifactNames == { <<"artifact">>, <<"build", "..", "artifact">> }

Environ == [HOME |-> "/root", LANG |-> "C", PATH |-> "/usr/bin"]

EnvironNoPath == [HOME |-> "/root"]

Given == ("build_command" :> BuildCommand) @@ ("artifact" :> <<"artifact">>)

NoCall == [build_command |-> <<>>, artifact_name |-> <<>>, variations |-> <<>>]

MainInput(config_options, command_line_options, environ) ==
    [entry |-> "main", config_options |-> config_options,
     command_line_options |-> command_line_options,
     environ |-> environ, call |-> NoCall]

CheckInput(variations, artifact_name, environ) ==
    [entry |-> "check", config_options |-> Empty, command_line_options |-> Empty,
     environ |-> environ,
     call |-> [build_command |-> BuildCommand, artifact_name |-> artifact_name,
               variations |-> variations]]

Inputs ==
    \* --variations with every selection, and with short lists in any order
    {MainInput(Empty, Given @@ ("variations" :> l), Environ) : l \in Orderly \cup ShortLists}
    \cup {MainInput(Empty, Given @@ ("variations" :> l), EnvironNoPath) : l \in ShortLists}
    \* --dont-vary alone, and no option at all
    \cup {MainInput(Empty, Given @@ ("dont_vary" :> d), Environ) : d \in ShortLists}
    \cup {MainInput(Empty, Given, Environ)}
    \* both options; a config file under each kind of command line
    \cup {MainInput(Empty, Given @@ ("variations" :> l) @@ ("dont_vary" :> d), Environ) :
             l \in Samples, d \in Samples}
    \cup {MainInput(("variations" :> l) @@ ("dont_vary" :> d), cl, Environ) :
             l \in Samples, d \in Samples,
             cl \in {Given, Given @@ ("dont_vary" :> <<"home">>),
                     Given @@ ("variations" :> <<"timezone", "home">>)}}
    \* a build command or an artifact from the config file, or from nowhere
    \cup {MainInput(cfg, cl, Environ) :
             cfg \in {Empty, "build_command" :> <<"scons">>, "artifact" :> <<"out">>},
             cl \in {"variations" :> <<"kernel">>,
                     ("build_command" :> BuildCommand) @@ ("variations" :> <<"kernel">>),
                     ("artifact" :> <<"artifact">>) @@ ("variations" :> <<"kernel">>)}}
    \* check() called with a list of its own
    \cup {CheckInput(l, a, e) : l \in ShortLists, a \in ArtifactNames,
                                e \in {Environ, EnvironNoPath}}
    \cup {CheckInput(VARIATIONS, <<"artifact">>, Environ)}

\* ------------------------------------------------------------------- state

VARIABLES
    inp,          \* what the process was started with
    pc,           \* where the process is
    args,         \* check()'s arguments: build_command, artifact_name, variations
    ctx,          \* command1, command2, env1, env2, tree1, tree2
    idx,          \* position of the for loop in args.variations
    stack,        \* the ExitStack: the contexts entered and not yet exited
    exc,          \* the exception being propagated, "none" if none
    temp,         \* the TemporaryDirectory: "none", "exists" or "deleted"
    files,        \* the paths that exist under the temporary directory
    mounted,      \* the mount points with an overlay mounted on them
    log,          \* the external operations carried out, in order
    built,        \* the calls of build(), in order
    diffed,       \* the calls of the diff tool, in order
    entered,      \* the variations whose context was entered, in order
    exited,       \* the variations whose context was exited, in order
    exit_status,  \* <<n>> once the exit status n of the process is decided
    escaped       \* an exception left check() without being caught

vars == << inp, pc, args, ctx, idx, stack, exc, temp, files, mounted, log,
           built, diffed, entered, exited, exit_status, escaped >>

\* tempfile.TemporaryDirectory() as temp
Temp == <<"tmp", "tmpdir">>

NoContext ==
    [command1 |-> <<>>, command2 |-> <<>>, env1 |-> Empty, env2 |-> Empty,
     tree1 |-> <<>>, tree2 |-> <<>>]

Event(op, ok, at) == [op |-> op, ok |-> ok, at |-> at]

Init ==
    /\ inp \in Inputs
    /\ pc = inp.entry
    /\ args = inp.call
    /\ ctx = NoContext
    /\ idx = 1
    /\ stack = <<>>
    /\ exc = "none"
    /\ temp = "none"
    /\ files = {}
    /\ mounted = {}
    /\ log = <<>>
    /\ built = <<>>
    /\ diffed = <<>>
    /\ entered = <<>>
    /\ exited = <<>>
    /\ exit_status = <<>>
    /\ escaped = FALSE

\* A status reduced to "differences or not".
sys_exit_truth(status) == IF status = 0 THEN 0 ELSE 1

\* sys.exit(status): the status the process reports.
sys_exit(status) == status % STATUS_MODULUS

\* ---------------------------------------------------------------- main()

\* main(): resolves the options, then calls check() or exits with 2 when the
\* build command or the artifact is missing.
Main ==
    /\ pc = "main"
    /\ LET cfg == inp.config_options
           cl == inp.command_line_options
           build_command == Get(cl, "build_command", Get(cfg, "build_command", <<>>))
           artifact == Get(cl, "artifact", Get(cfg, "artifact", <<>>))
           variations == RestoreOrder(Selected(cfg, cl))
       IN  IF build_command = <<>> \/ artifact = <<>>
           THEN /\ exit_status' = <<sys_exit(FAILURE_STATUS)>>
                /\ pc' = "done"
                /\ UNCHANGED args
           ELSE /\ args' = [build_command |-> build_command, artifact_name |-> artifact,
                            variations |-> variations]
                /\ pc' = "check"
                /\ UNCHANGED exit_status
    /\ UNCHANGED << inp, ctx, idx, stack, exc, temp, files, mounted, log, built,
                    diffed, entered, exited, escaped >>

\* --------------------------------------------------------------- check()

\* An exception raised outside the try statement of check(): it leaves the
\* with block (which removes the directory) and ends the process.
Escapes(exception) ==
    /\ exc' = exception
    /\ escaped' = TRUE
    /\ exit_status' = <<UNCAUGHT_STATUS>>

\* with tempfile.TemporaryDirectory() as temp, and the four assignments
\* that follow it.
MakeTemp ==
    /\ pc = "check"
    /\ \E ok \in BOOLEAN :
         /\ log' = Append(log, Event("mkdtemp", ok, Temp))
         /\ IF ok
            THEN /\ temp' = "exists"
                 /\ ctx' = [ctx EXCEPT !.command1 = args.build_command,
                                       !.command2 = args.build_command,
                                       !.env1 = inp.environ,
                                       !.env2 = inp.environ]
                 /\ pc' = "copytree1"
                 /\ UNCHANGED << exc, escaped, exit_status >>
            ELSE /\ Escapes("OSError")
                 /\ pc' = "done"
                 /\ UNCHANGED << temp, ctx >>
    /\ UNCHANGED << inp, args, idx, stack, files, mounted, built, diffed,
                    entered, exited >>

\* Where the for loop over the variations, or the code after it, goes on.
AfterEntering_First(i) == "build1"

AfterEntering(i) == IF i <= Len(args.variations) THEN "enter" ELSE "build1"

\* tree1 = pathlib.Path(shutil.copytree(str(source_root), temp + '/tree1'))
CopyTree1 ==
    /\ pc = "copytree1"
    /\ \E ok \in BOOLEAN :
         /\ log' = Append(log, Event("copytree", ok, Append(Temp, "tree1")))
         /\ IF ok
            THEN /\ files' = files \cup {Append(Temp, "tree1")}
                 /\ ctx' = [ctx EXCEPT !.tree1 = Append(Temp, "tree1")]
                 /\ pc' = "copytree2"
                 /\ UNCHANGED << exc, escaped, exit_status >>
            ELSE /\ Escapes("OSError")
                 /\ pc' = "cleanup"
                 /\ UNCHANGED << files, ctx >>
    /\ UNCHANGED << inp, args, idx, stack, temp, mounted, built, diffed,
                    entered, exited >>

\* tree2 = pathlib.Path(shutil.copytree(str(source_root), temp + '/tree2'))
CopyTree2 ==
    /\ pc = "copytree2"
    /\ \E ok \in BOOLEAN :
         /\ log' = Append(log, Event("copytree", ok, Append(Temp, "tree2")))
         /\ IF ok
            THEN /\ files' = files \cup {Append(Temp, "tree2")}
                 /\ ctx' = [ctx EXCEPT !.tree2 = Append(Temp, "tree2")]
                 /\ pc' = AfterEntering(idx)
                 /\ UNCHANGED << exc, escaped, exit_status >>
            ELSE /\ Escapes("OSError")
                 /\ pc' = "cleanup"
                 /\ UNCHANGED << files, ctx >>
    /\ UNCHANGED << inp, args, idx, stack, temp, mounted, built, diffed,
                    entered, exited >>

\* An exception raised inside the with ExitStack() block: the stack is
\* unwound with the exception in flight.
Raise(exception) ==
    /\ exc' = exception
    /\ pc' = "unwind"

\* stack.enter_context(...) of a context manager that was entered: it is
\* pushed on the ExitStack together with what its generator keeps.
Push(variation, kept) == Append(stack, [variation |-> variation, kept |-> kept])

\* One turn of the for loop, for every variation but fileordering: the
\* generator runs up to its yield.
EnterContext ==
    /\ pc = "enter"
    /\ LET variation == args.variations[idx]
       IN  /\ variation \in Registered \ {"fileordering"}
           /\ ~(variation = "path" /\ path_raises(ctx))
           /\ ctx' = Yielded(variation, ctx)
           /\ stack' = Push(variation, <<>>)
           /\ entered' = Append(entered, variation)
    /\ idx' = idx + 1
    /\ pc' = AfterEntering(idx + 1)
    /\ UNCHANGED << inp, args, exc, temp, files, mounted, log, built, diffed,
                    exited, exit_status, escaped >>

\* One turn of the for loop that raises before anything is entered:
\* VARIATIONS[variation] of a name the registry does not hold, or path
\* without PATH in the environment.
EnterRaises ==
    /\ pc = "enter"
    /\ LET variation == args.variations[idx]
       IN  \/ variation \notin Registered
           \/ variation = "path" /\ path_raises(ctx)
    /\ Raise("KeyError")
    /\ log' = Append(log, Event("enter", FALSE, <<args.variations[idx]>>))
    /\ UNCHANGED << inp, args, ctx, idx, stack, temp, files, mounted, built,
                    diffed, entered, exited, exit_status, escaped >>

\* check_call on the disorderfs command raises CalledProcessError when the
\* mount did not succeed.
mount_never_raises(ok) == FALSE

mount_raises(ok) == ~ok

\* One turn of the for loop for fileordering: mkdir, then the disorderfs
\* mount, then the yield inside try.
EnterFileordering ==
    /\ pc = "enter"
    /\ args.variations[idx] = "fileordering"
    /\ LET mountpoint == disorderfs(ctx)
       IN  IF mountpoint \in files
           THEN \* disorderfs.mkdir() raises FileExistsError
                /\ Raise("FileExistsError")
                /\ log' = Append(log, Event("mkdir", FALSE, mountpoint))
                /\ UNCHANGED << ctx, idx, stack, files, mounted, entered >>
           ELSE /\ files' = files \cup {mountpoint}
                /\ \E ok \in BOOLEAN :
                     /\ log' = log \o << Event("mkdir", TRUE, mountpoint),
                                         Event("disorderfs", ok, mountpoint) >>
                     /\ IF ~mount_raises(ok)
                        THEN /\ mounted' = IF ok THEN mounted \cup {mountpoint}
                                                 ELSE mounted
                             /\ ctx' = fileordering(ctx)
                             /\ stack' = Push("fileordering", mountpoint)
                             /\ entered' = Append(entered, "fileordering")
                             /\ idx' = idx + 1
                             /\ pc' = AfterEntering(idx + 1)
                             /\ UNCHANGED exc
                        ELSE /\ Raise("CalledProcessError")
                             /\ UNCHANGED << ctx, idx, stack, mounted, entered >>
    /\ UNCHANGED << inp, args, temp, built, diffed, exited, exit_status, escaped >>

\* --------------------------------------------------------------- build()

\* subprocess.call: the status is returned and nothing is raised.
call_never_raises(status) == FALSE

\* subprocess.check_call raises CalledProcessError on a non-zero status.
check_call_raises(status) == status # 0

\* A copy that is skipped when the file is not there.
open_never_raises(present) == FALSE

\* open(built_artifact, 'rb') raises FileNotFoundError when the file is
\* not there.
open_raises(present) == ~present

\* What build() raises, "none" when it returns.
build(status, present) ==
    IF check_call_raises(status) THEN "CalledProcessError"
    ELSE IF open_raises(present) THEN "FileNotFoundError"
    ELSE "none"

BuildStatuses == 0..MaxBuildStatus

\* The arguments check() passes to build() for one side.
BuildCall(side) ==
    [side |-> side,
     command |-> join(IF side = 1 THEN ctx.command1 ELSE ctx.command2),
     cwd |-> IF side = 1 THEN ctx.tree1 ELSE ctx.tree2,
     env |-> IF side = 1 THEN ctx.env1 ELSE ctx.env2,
     built_artifact |->
         normpath(Temp \o <<IF side = 1 THEN "tree1" ELSE "tree2">> \o args.artifact_name),
     artifact_store |-> normpath(Append(Temp, IF side = 1 THEN "artifact1" ELSE "artifact2"))]

\* One call of build(): the artifact store is opened, the command runs in
\* the tree, the artifact is read and written to the store.  Whether the
\* artifact is there is only looked at after a status of 0, so it is left
\* open only then.
Build(side, then) ==
    LET call == BuildCall(side)
    IN  /\ files' = files \cup {call.artifact_store}
        /\ \E status \in BuildStatuses, present \in BOOLEAN :
             /\ (status # 0 => present)
             /\ LET raised == build(status, present)
                IN  /\ built' = Append(built, call @@ [status |-> status,
                                                       present |-> present,
                                                       captured |-> raised = "none"])
                    /\ log' = Append(log, Event("build", raised = "none", call.cwd))
                    /\ IF raised = "none"
                       THEN pc' = then /\ UNCHANGED exc
                       ELSE Raise(raised)
        /\ UNCHANGED << inp, args, ctx, idx, stack, temp, mounted, diffed,
                        entered, exited, exit_status, escaped >>

\* build(' '.join(command1), str(tree1), ...)
Build1 == pc = "build1" /\ Build(1, "build2")

\* build(' '.join(command2), str(tree2), ...); the with ExitStack() block
\* ends after it.
Build2 == pc = "build2" /\ Build(2, "unwind")

\* ------------------------------------------------------- leaving the stack

\* Exits in the order of entry.
NextExit_FirstIn(s) == 1

\* ExitStack.__exit__ calls the exits last in, first out: the position of
\* the context that is exited next.
NextExit(s) == Len(s)

Without(s, i) == SubSeq(s, 1, i - 1) \o SubSeq(s, i + 1, Len(s))

\* An unmount after the yield with no finally: skipped when an exception is
\* thrown into the generator.
unmounts_unless_raised(exception) == exception = "none"

\* fileordering unmounts in a finally clause: with or without an exception
\* thrown into the generator.
unmounts(exception) == TRUE

\* check_call on fusermount -u raises CalledProcessError when the unmount
\* did not succeed.
unmount_never_raises(ok) == FALSE

unmount_raises(ok) == ~ok

\* The exit of one context.  Only fileordering does anything: fusermount -u,
\* which raises when it fails.
ExitContext ==
    /\ pc = "unwind"
    /\ stack # <<>>
    /\ LET i == NextExit(stack)
           top == stack[i]
       IN  /\ stack' = Without(stack, i)
           /\ exited' = Append(exited, top.variation)
           /\ IF top.variation = "fileordering" /\ unmounts(exc)
              THEN \E ok \in BOOLEAN :
                     /\ log' = Append(log, Event("fusermount", ok, top.kept))
                     /\ mounted' = IF ok THEN mounted \ {top.kept}
                                         ELSE mounted
                     /\ exc' = IF unmount_raises(ok)
                               THEN "CalledProcessError" ELSE exc
              ELSE UNCHANGED << log, mounted, exc >>
    /\ UNCHANGED << inp, pc, args, ctx, idx, temp, files, built, diffed,
                    entered, exit_status, escaped >>

\* except Exception catches everything raised in the try block.
caught(exception) == TRUE

\* except Exception: sys.exit(2)
Except ==
    /\ pc = "unwind"
    /\ stack = <<>>
    /\ exc # "none"
    /\ IF caught(exc)
       THEN /\ exit_status' = <<sys_exit(FAILURE_STATUS)>>
            /\ exc' = "SystemExit"
            /\ UNCHANGED escaped
       ELSE /\ Escapes(exc)
    /\ pc' = "cleanup"
    /\ UNCHANGED << inp, args, ctx, idx, stack, temp, files, mounted, log, built,
                    diffed, entered, exited >>

\* The statuses the diff tool is taken to return: the small ones and the
\* largest a process can report.
DiffStatuses == (0..MaxDiffStatus) \cup {STATUS_MODULUS - 1}

\* sys.exit(subprocess.call(['diffoscope', temp + '/artifact1', temp + '/artifact2']))
Diff ==
    /\ pc = "unwind"
    /\ stack = <<>>
    /\ exc = "none"
    /\ \E status \in DiffStatuses :
         /\ diffed' = Append(diffed, [a |-> Append(Temp, "artifact1"),
                                      b |-> Append(Temp, "artifact2"),
                                      status |-> status])
         /\ log' = Append(log, Event("diffoscope", TRUE, Temp))
         /\ exit_status' = <<sys_exit(status)>>
    /\ exc' = "SystemExit"
    /\ pc' = "cleanup"
    /\ UNCHANGED << inp, args, ctx, idx, stack, temp, files, mounted, built,
                    entered, exited, escaped >>

\* tempfile.mkdtemp(): nothing removes the directory.
cleanup_never(state) == state

\* TemporaryDirectory.__exit__: the state of the directory after the with
\* block is left.
cleanup(state) == "deleted"

\* The with block is left, by SystemExit or by an escaping exception.
Cleanup ==
    /\ pc = "cleanup"
    /\ temp' = cleanup(temp)
    /\ files' = IF temp' = "deleted" THEN {} ELSE files
    /\ log' = Append(log, Event("rmtree", temp' = "deleted", Temp))
    /\ pc' = "done"
    /\ UNCHANGED << inp, args, ctx, idx, stack, exc, mounted, built, diffed,
                    entered, exited, exit_status, escaped >>

Next ==
    \/ Main
    \/ MakeTemp
    \/ CopyTree1
    \/ CopyTree2
    \/ EnterContext
    \/ EnterRaises
    \/ EnterFileordering
    \/ Build1
    \/ Build2
    \/ ExitContext
    \/ Except
    \/ Diff
    \/ Cleanup

Spec == Init /\ [][Next]_vars

Terminated == pc = "done"

\* ------------------------------------------------------------- properties

\* How many operations of the log satisfy a test.
Count(Test(_)) == Cardinality({i \in DOMAIN log : Test(log[i])})

Happened(op) == \E i \in DOMAIN log : log[i].op = op

Failed(op) == \E i \in DOMAIN log : log[i].op = op /\ ~log[i].ok

MountPoints == {log[i].at : i \in {j \in DOMAIN log : log[j].op \in {"disorderfs", "fusermount"}}}

MountsDone(at) == Count(LAMBDA e : e.op = "disorderfs" /\ e.at = at /\ e.ok)

UnmountsTried(at) == Count(LAMBDA e : e.op = "fusermount" /\ e.at = at)

Reverse(s) == [i \in 1..Len(s) |-> s[Len(s) + 1 - i]]

\* C1: a mount point is never given more unmount attempts than it had
\* successful mounts (none when the mount was not attempted or failed), and
\* when the run has ended every successful mount has had exactly one unmount
\* attempt, whatever failed in between.
C1_MountsPairedWithUnmounts ==
    \A at \in MountPoints :
        /\ UnmountsTried(at) <= MountsDone(at)
        /\ MountsDone(at) <= 1
        /\ Terminated => UnmountsTried(at) = MountsDone(at)

\* A run that mounted the overlay, had build B fail, and ended.
C1_Witness ==
    /\ Terminated
    /\ MountsDone(Append(Temp, "disorderfs")) = 1
    /\ UnmountsTried(Append(Temp, "disorderfs")) = 1
    /\ Len(built) = 2
    /\ ~built[2].captured

\* C2: the contexts are exited in the reverse of the order they were entered
\* in, and once the run has ended each entered context was exited exactly
\* once.
C2_ExitsReverseEntries ==
    /\ Len(exited) <= Len(entered)
    /\ exited = SubSeq(Reverse(entered), 1, Len(exited))
    /\ Terminated => exited = Reverse(entered)

\* A run that entered two different variations, had build A fail, and ended.
C2_Witness ==
    /\ Terminated
    /\ Len(entered) = 2
    /\ entered[1] # entered[2]
    /\ exited = Reverse(entered)
    /\ Len(built) = 1
    /\ ~built[1].captured

\* The list of variation names the caller asked for.
Requested ==
    IF inp.entry = "main"
    THEN Get(inp.command_line_options, "variations",
             Get(inp.config_options, "variations", VARIATIONS))
    ELSE inp.call.variations

\* C3: when the requested list holds a name the registry does not hold, no
\* tree is copied, no mount is attempted, no build runs, and the run ends
\* with the failure status.
C3_UnknownNameFailsBeforeAnything ==
    (\E i \in DOMAIN Requested : Requested[i] \notin Registered) =>
        /\ ~Happened("copytree")
        /\ ~Happened("disorderfs")
        /\ built = <<>>
        /\ Terminated => exit_status = <<FAILURE_STATUS>>

\* Both builds returned, every context was exited and no unmount failed.
ReachedDiffStep ==
    /\ Len(built) = 2
    /\ built[1].captured
    /\ built[2].captured
    /\ stack = <<>>
    /\ ~Failed("fusermount")
    /\ pc \in {"cleanup", "done"}

\* C4: once the diff step is reached the diff tool has been called exactly
\* once, on the two artifact files the builds wrote (which exist until the
\* directory is removed), and the exit status of the process is the status
\* the tool returned, whichever it is.
C4_DiffStatusPassedThrough ==
    /\ Len(diffed) <= 1
    /\ ReachedDiffStep => Len(diffed) = 1
    /\ diffed # <<>> =>
        /\ Len(built) = 2
        /\ diffed[1].a = built[1].artifact_store
        /\ diffed[1].b = built[2].artifact_store
        /\ diffed[1].a # diffed[1].b
        /\ pc = "cleanup" => {diffed[1].a, diffed[1].b} \subseteq files
        /\ exit_status = <<diffed[1].status>>

\* A run that ended with the largest status the diff tool can return.
C4_Witness ==
    /\ Terminated
    /\ ReachedDiffStep
    /\ diffed[1].status = STATUS_MODULUS - 1
    /\ exit_status = <<STATUS_MODULUS - 1>>

\* C5: when a build command returned a non-zero status the diff tool is not
\* called, no exception escapes, and the run ends with the failure status.
C5_BuildFailureIsFatal ==
    (\E i \in DOMAIN built : built[i].status # 0) =>
        /\ diffed = <<>>
        /\ ~escaped
        /\ Terminated => exit_status = <<FAILURE_STATUS>>

\* A run where build A succeeded, build B returned non-zero, and that ended.
C5_Witness ==
    /\ Terminated
    /\ Len(built) = 2
    /\ built[1].captured
    /\ built[2].status # 0
    /\ exit_status = <<FAILURE_STATUS>>
    /\ diffed = <<>>

\* C6: when a build command returned 0 and the artifact is not there, no
\* later build is started, the diff tool is not called, no exception
\* escapes, and the run ends with the failure status, as after a non-zero
\* build.
C6_MissingArtifactIsBuildFailure ==
    \A i \in DOMAIN built :
        (built[i].status = 0 /\ ~built[i].present) =>
            /\ i = Len(built)
            /\ diffed = <<>>
            /\ ~escaped
            /\ Terminated => exit_status = <<FAILURE_STATUS>>

\* A run where build A returned 0 without its artifact, and that ended.
C6_Witness ==
    /\ Terminated
    /\ Len(built) = 1
    /\ built[1].status = 0
    /\ ~built[1].present
    /\ exit_status = <<FAILURE_STATUS>>

\* C7: whatever fails in setup (the temporary directory, the tree copies),
\* in entering a variation or in a build, no exception escapes check() and
\* the run ends with the failure status.
C7_EveryFailureIsCaught ==
    (\/ Failed("mkdtemp") \/ Failed("copytree")
     \/ Failed("enter") \/ Failed("mkdir") \/ Failed("disorderfs")
     \/ Failed("build")) =>
        /\ ~escaped
        /\ Terminated => exit_status = <<FAILURE_STATUS>>

Position(v) == CHOOSE i \in DOMAIN VARIATIONS : VARIATIONS[i] = v

\* A list of registered names, each before the next in the registry.
InRegistryOrder(l) ==
    /\ \A i \in DOMAIN l : l[i] \in Registered
    /\ \A i \in 1..(Len(l) - 1) : Position(l[i]) < Position(l[i + 1])

\* Whether the options given to main() ask for variation v.
Wanted(v) ==
    LET cfg == inp.config_options
        cl == inp.command_line_options
    IN  /\ v \in Registered
        /\ IF "variations" \in DOMAIN cl
           THEN \E i \in DOMAIN cl["variations"] : cl["variations"][i] = v
           ELSE /\ "variations" \in DOMAIN cfg =>
                       \E i \in DOMAIN cfg["variations"] : cfg["variations"][i] = v
                /\ "dont_vary" \in DOMAIN cfg =>
                       \A i \in DOMAIN cfg["dont_vary"] : cfg["dont_vary"][i] # v
        /\ "dont_vary" \in DOMAIN cl =>
               \A i \in DOMAIN cl["dont_vary"] : cl["dont_vary"][i] # v

\* The set of variations of the run.
S == IF inp.entry = "main" THEN {v \in Registered : Wanted(v)}
     ELSE {inp.call.variations[i] : i \in DOMAIN inp.call.variations}

\* The variables the variations in s write on one side, by the catalog.
Written(side, s) ==
    (IF "captures_environment" \in s /\ side = 2 THEN {"CAPTURE_ENVIRONMENT"} ELSE {})
    \cup (IF "home" \in s THEN {"HOME"} ELSE {})
    \cup (IF "locales" \in s /\ side = 2 THEN {"LANG", "LC_ALL"} ELSE {})
    \cup (IF "path" \in s /\ side = 2 THEN {"PATH"} ELSE {})
    \cup (IF "timezone" \in s THEN {"TZ"} ELSE {})

\* The value the catalog gives a written variable.
Documented(side, k) ==
    CASE k = "CAPTURE_ENVIRONMENT" -> "i_capture_the_environment"
      [] k = "HOME" -> IF side = 1 THEN "/nonexistent/first-build"
                       ELSE "/nonexistent/second-build"
      [] k \in {"LANG", "LC_ALL"} -> "fr_CH.UTF-8"
      [] k = "PATH" -> inp.environ["PATH"] \o "/i_capture_the_path"
      [] k = "TZ" -> IF side = 1 THEN "GMT+12" ELSE "GMT-14"

ExpectedEnv(side, s) ==
    LET written == Written(side, s)
    IN  [k \in (DOMAIN inp.environ) \cup written |->
            IF k \in written THEN Documented(side, k) ELSE inp.environ[k]]

ExpectedCommand(side, s) ==
    IF side = 1 THEN args.build_command
    ELSE (IF "umask" \in s THEN <<"umask", "0002;">> ELSE <<>>)
         \o (IF "kernel" \in s THEN <<"linux64", "--uname-2.6">> ELSE <<>>)
         \o args.build_command

ExpectedTree(side, s) ==
    IF side = 1 THEN <<"tmp", "tmpdir", "tree1">>
    ELSE IF "fileordering" \in s THEN <<"tmp", "tmpdir", "disorderfs">>
    ELSE <<"tmp", "tmpdir", "tree2">>

\* C9: for every set S of registered variations applied in registry order,
\* each build is handed the command, the environment and the tree that show
\* the documented effect of every variation in S once and of no other; with
\* S empty both builds get the same command and environment.
C9_ContextShowsExactlyS ==
    (built # <<>> /\ InRegistryOrder(args.variations)) =>
        LET s == S
        IN  /\ \A i \in DOMAIN built :
                 /\ built[i].side = i
                 /\ built[i].command = join(ExpectedCommand(i, s))
                 /\ built[i].env = ExpectedEnv(i, s)
                 /\ built[i].cwd = ExpectedTree(i, s)
            /\ (s = {} /\ Len(built) = 2) =>
                 /\ built[1].command = built[2].command
                 /\ built[1].env = built[2].env

\* Both builds were called with every registered variation selected.
C9_Witness ==
    /\ inp.entry = "main"
    /\ S = Registered
    /\ Len(built) = 2
    /\ built[2].command = "umask 0002; linux64 --uname-2.6 make dist"

\* The context after the contexts of a list of variations were entered one
\* after the other, each receiving what the one before yielded.
RECURSIVE Threaded(_, _)
Threaded(names, c) ==
    IF names = <<>> THEN c ELSE Threaded(Tail(names), Yielded(Head(names), c))

\* C10: main() has the selected variations entered in registry order,
\* whatever the order they were listed in, all of them once the builds
\* start; and the context is what the entered variations yield when each
\* receives the context the one before it returned.
C10_RegistryOrderAndThreading ==
    /\ inp.entry = "main" =>
        /\ InRegistryOrder(entered)
        /\ \A i \in DOMAIN entered : Wanted(entered[i])
        /\ (pc \in {"build1", "build2"} \/ built # <<>>) =>
               \A v \in Registered : Wanted(v) => \E i \in DOMAIN entered : entered[i] = v
    /\ pc \in {"enter", "build1", "build2", "unwind"} =>
        ctx = Threaded(entered,
                       [command1 |-> args.build_command, command2 |-> args.build_command,
                        env1 |-> inp.environ, env2 |-> inp.environ,
                        tree1 |-> <<"tmp", "tmpdir", "tree1">>,
                        tree2 |-> <<"tmp", "tmpdir", "tree2">>])

\* umask was listed before kernel and kernel was entered first.
C10_Witness ==
    /\ inp.entry = "main"
    /\ Requested = <<"umask", "kernel">>
    /\ entered = <<"kernel", "umask">>
    /\ Len(built) = 2
    /\ ctx.command2 = <<"umask", "0002;", "linux64", "--uname-2.6", "make", "dist">>

\* ------------------------------------------------------------------ C11

Indices(op) == {i \in DOMAIN log : log[i].op = op}

AnyFailure ==
    \E op \in {"mkdtemp", "copytree", "enter", "mkdir", "disorderfs", "build",
               "fusermount"} : Failed(op)

\* C11: a finished run has status 0 only if every listed variation was
\* entered, both builds succeeded and were captured, and the diff tool ran
\* and returned 0; after any failure of setup, of a variation or of a build
\* the status is FAILURE_STATUS; and in a run of check() without a failure
\* the status is the one the diff tool returned.
C11_ExitStatusContract ==
    Terminated =>
        /\ exit_status = <<0>> =>
              /\ entered = args.variations
              /\ Len(built) = 2 /\ built[1].captured /\ built[2].captured
              /\ Len(diffed) = 1 /\ diffed[1].status = 0
        /\ AnyFailure => exit_status = <<FAILURE_STATUS>>
        /\ (Happened("mkdtemp") /\ ~AnyFailure) =>
              /\ Len(diffed) = 1
              /\ exit_status = <<diffed[1].status>>

\* ------------------------------------------------------------------ C12

\* C12: the steps of one run follow each other: a build is started only
\* when every listed variation has been entered and none has been left,
\* build B only after build A succeeded and its artifact was captured, the
\* diff tool only after both builds were captured, and there are never more
\* than the two builds, A then B.
C12_StepsAreSequential ==
    /\ pc \in {"build1", "build2"} =>
          /\ entered = args.variations
          /\ Len(stack) = Len(args.variations)
          /\ exited = <<>>
    /\ built # <<>> =>
          /\ entered = args.variations
          /\ ~Failed("enter") /\ ~Failed("mkdir") /\ ~Failed("disorderfs")
          /\ \A i \in Indices("build") :
                /\ \A j \in Indices("mkdir") \cup Indices("disorderfs") : j < i
                /\ \A j \in Indices("fusermount") \cup Indices("diffoscope") : i < j
    /\ Len(built) <= 2
    /\ Cardinality(Indices("build")) = Len(built)
    /\ \A i \in DOMAIN built : built[i].side = i
    /\ Len(built) = 2 => built[1].captured /\ built[1].status = 0 /\ built[1].present
    /\ pc = "build2" => Len(built) = 1 /\ built[1].captured
    /\ diffed # <<>> =>
          /\ Len(built) = 2
          /\ built[1].captured /\ built[2].captured

\* Two variations were listed, both builds ran in their scopes and the diff
\* tool was called.
C12_Witness ==
    /\ Terminated
    /\ Len(args.variations) = 2
    /\ "fileordering" \in Range(args.variations)
    /\ entered = args.variations
    /\ Len(built) = 2
    /\ Len(diffed) = 1

\* ------------------------------------------------------------------ C13

C14_MountFailureAborts ==
    Failed("disorderfs") =>
        /\ pc \in {"unwind", "cleanup", "done"}
        /\ Cardinality(Indices("disorderfs")) = 1
        /\ "fileordering" \notin Range(entered)
        /\ Len(entered) = idx - 1
        /\ args.variations[idx] = "fileordering"
        /\ built = <<>>
        /\ ~Happened("build")
        /\ ~Happened("fusermount")
        /\ mounted = {}
        /\ diffed = <<>>
        /\ ~escaped
        /\ Terminated => exit_status = <<FAILURE_STATUS>>

\* The mount failed with another variation listed after fileordering.
C14_Witness ==
    /\ Terminated
    /\ Failed("disorderfs")
    /\ idx < Len(args.variations)
    /\ args.variations[idx] = "fileordering"
    /\ exit_status = <<FAILURE_STATUS>>

\* ------------------------------------------------------------------ C15

\* C15: on each side the artifact that build() reads is the declared
\* relative path under the directory the build command ran in, which is the
\* tree of that side in the context the variations produced.
C15_ArtifactUnderBuildTree ==
    \A i \in DOMAIN built :
        /\ built[i].cwd = IF built[i].side = 1 THEN ctx.tree1 ELSE ctx.tree2
        /\ built[i].built_artifact = normpath(built[i].cwd \o args.artifact_name)

\* ------------------------------------------------------------------ C16

Occurrences(token, command) == Cardinality({i \in DOMAIN command : command[i] = token})

\* C16: when the variations are applied in registry order, as main() and
\* the default of check() list them, the second command is the umask
\* prefix when umask is selected, then the kernel prefix when kernel is
\* selected, then the tokens of the build command; each prefix is there
\* once; and the first command is the build command itself.
C16_PrefixesStack ==
    (built # <<>> /\ InRegistryOrder(args.variations)) =>
        LET k == "kernel" \in Range(args.variations)
            u == "umask" \in Range(args.variations)
            expected == (IF u THEN <<"umask", "0002;">> ELSE <<>>)
                        \o (IF k THEN <<"linux64", "--uname-2.6">> ELSE <<>>)
                        \o args.build_command
        IN  /\ ctx.command1 = args.build_command
            /\ built[1].command = join(args.build_command)
            /\ ctx.command2 = expected
            /\ Occurrences("umask", ctx.command2) = IF u THEN 1 ELSE 0
            /\ Occurrences("linux64", ctx.command2) = IF k THEN 1 ELSE 0
            /\ Len(built) = 2 => built[2].command = join(expected)

\* check() was called with the whole registry and build B was handed both
\* prefixes in front of the build command.
C16_Witness ==
    /\ inp.entry = "check"
    /\ args.variations = VARIATIONS
    /\ Len(built) = 2
    /\ built[1].command = "make dist"
    /\ built[2].command = "umask 0002; linux64 --uname-2.6 make dist"

\* ------------------------------------------------------------------ C17
\* The loop of check() as a function of the listed order: the variations of
\* a duplicate-free list are applied one after the other to the context
\* check() starts with, without the commands they run.

ENV_ONLY == {"captures_environment", "home", "locales", "path", "timezone"}

Orderings(n, names) ==
    {l \in [1..n -> names] : \A i, j \in 1..n : i # j => l[i] # l[j]}

OrderedLists ==
    UNION {Orderings(n, Registered) : n \in 0..MaxOrdered}
    \cup UNION {Orderings(n, ENV_ONLY) : n \in 0..Cardinality(ENV_ONLY)}

InitialContext(build_command, environ) ==
    [command1 |-> build_command, command2 |-> build_command,
     env1 |-> environ, env2 |-> environ,
     tree1 |-> Append(Temp, "tree1"), tree2 |-> Append(Temp, "tree2")]

InitOrder ==
    /\ inp \in {CheckInput(l, <<"artifact">>, Environ) : l \in OrderedLists}
    /\ pc = "apply"
    /\ args = inp.call
    /\ ctx = InitialContext(args.build_command, inp.environ)
    /\ idx = 1
    /\ stack = <<>>
    /\ exc = "none"
    /\ temp = "exists"
    /\ files = {}
    /\ mounted = {}
    /\ log = <<>>
    /\ built = <<>>
    /\ diffed = <<>>
    /\ entered = <<>>
    /\ exited = <<>>
    /\ exit_status = <<>>
    /\ escaped = FALSE

\* One turn of the for loop: the six names are rebound to what the
\* variation yields.
Apply ==
    /\ pc = "apply"
    /\ idx <= Len(args.variations)
    /\ ctx' = Yielded(args.variations[idx], ctx)
    /\ entered' = Append(entered, args.variations[idx])
    /\ idx' = idx + 1
    /\ UNCHANGED << inp, pc, args, stack, exc, temp, files, mounted, log, built,
                    diffed, exited, exit_status, escaped >>

NextOrder == Apply

SpecOrder == InitOrder /\ [][NextOrder]_vars

Keys(c, side) == DOMAIN (IF side = 1 THEN c.env1 ELSE c.env2)

Value(c, side, k) == IF side = 1 THEN c.env1[k] ELSE c.env2[k]

\* The variable names one variation writes on one side, seen from outside:
\* those whose presence or value differs after it was applied.
Writes(variation, side, c) ==
    LET d == Yielded(variation, c)
    IN  {k \in Keys(c, side) \cup Keys(d, side) :
            \/ k \notin Keys(c, side)
            \/ k \notin Keys(d, side)
            \/ Value(c, side, k) # Value(d, side, k)}

Before(v, w, l) ==
    \E i, j \in DOMAIN l : i < j /\ l[i] = v /\ l[j] = w

\* C17: applied in any listed order, the variations of a duplicate-free
\* list leave the same environments (and trees and first command) as the
\* same variations applied in registry order; any two environment-only
\* variations write disjoint sets of variable names on each side; the
\* second command is the same too unless both kernel and umask are
\* listed, and with umask listed before kernel it does differ.
C17_OrderOnlyMattersForPrefixes ==
    pc = "apply" =>
        LET names == Range(entered)
            start == InitialContext(args.build_command, inp.environ)
            canon == Threaded(RestoreOrder(names), start)
        IN  /\ ctx.env1 = canon.env1
            /\ ctx.env2 = canon.env2
            /\ ctx.tree1 = canon.tree1
            /\ ctx.tree2 = canon.tree2
            /\ ctx.command1 = canon.command1
            /\ ~({"kernel", "umask"} \subseteq names) => ctx.command2 = canon.command2
            /\ Before("umask", "kernel", entered) => ctx.command2 # canon.command2
            /\ \A v, w \in ENV_ONLY \cap names :
                  v # w => \A side \in 1..2 :
                              Writes(v, side, start) \cap Writes(w, side, start) = {}

\* The five environment-only variations were applied in the reverse of
\* the registry order.
C17_Witness ==
    /\ pc = "apply"
    /\ entered = <<"timezone", "path", "locales", "home", "captures_environment">>
    /\ DOMAIN ctx.env2 = {"CAPTURE_ENVIRONMENT", "HOME", "LANG", "LC_ALL", "PATH", "TZ"}
    /\ ctx.env1["HOME"] = "/nonexistent/first-build"

\* ------------------------------------------------------------------ C18

Differs(d, e) ==
    {k \in DOMAIN d \cup DOMAIN e :
        k \notin DOMAIN d \/ k \notin DOMAIN e \/ d[k] # e[k]}

\* C18: from the moment check() has set the context up, whatever is listed
\* and in whatever order, the first command is the build command given, the
\* first tree is the first copy, and the first environment differs from the
\* ambient one in HOME only when home was entered and in TZ only when
\* timezone was entered, with the values those two write; both commands
\* and both environments start equal; and build A is called with exactly
\* these.
C18_SideAIsBaseline ==
    temp # "none" =>
        /\ pc = "copytree1" =>
              /\ ctx.command1 = ctx.command2
              /\ ctx.env1 = ctx.env2
              /\ ctx.env1 = inp.environ
        /\ ctx.command1 = args.build_command
        /\ ctx.tree1 \in {<<>>, Append(Temp, "tree1")}
        /\ (entered # <<>> \/ built # <<>>) => ctx.tree1 = Append(Temp, "tree1")
        /\ Differs(ctx.env1, inp.environ) \subseteq
              (IF "home" \in Range(entered) THEN {"HOME"} ELSE {})
              \cup (IF "timezone" \in Range(entered) THEN {"TZ"} ELSE {})
        /\ "home" \in Range(entered) => ctx.env1["HOME"] = "/nonexistent/first-build"
        /\ "timezone" \in Range(entered) => ctx.env1["TZ"] = "GMT+12"
        /\ built # <<>> =>
              /\ built[1].command = join(args.build_command)
              /\ built[1].cwd = Append(Temp, "tree1")
              /\ built[1].env = ctx.env1

\* Both command prefixes and writes to the second environment were applied
\* and build A ran with the build command and the ambient environment.
C18_Witness ==
    /\ args.variations = VARIATIONS
    /\ Len(built) = 2
    /\ ctx.command2 # ctx.command1
    /\ built[1].command = "make dist"
    /\ Differs(built[1].env, inp.environ) = {"HOME", "TZ"}
    /\ Differs(built[2].env, built[1].env) =
          {"CAPTURE_ENVIRONMENT", "HOME", "LANG", "LC_ALL", "PATH", "TZ"}

\* ------------------------------------------------------------------ C19

\* C19: every successful mount is followed by an unmount attempt at the
\* same mount point before any call of the diff tool and before the
\* temporary directory is removed; the diff tool is called after the
\* directory was made and before it is removed, while both artifact
\* stores exist; and the removal is the last step, after the status of the
\* run is known.
C19_ReleaseOrder ==
    /\ \A m \in Indices("disorderfs") :
          log[m].ok =>
              \A e \in Indices("diffoscope") \cup Indices("rmtree") :
                  \E u \in Indices("fusermount") :
                      m < u /\ u < e /\ log[u].at = log[m].at
    /\ \A d \in Indices("diffoscope") :
          /\ \E t \in Indices("mkdtemp") : t < d /\ log[t].ok
          /\ \A r \in Indices("rmtree") : d < r
    /\ (diffed # <<>> /\ pc = "cleanup") =>
          /\ temp = "exists"
          /\ diffed[1].a \in files
          /\ diffed[1].b \in files
    /\ Happened("rmtree") =>
          /\ pc = "done"
          /\ exit_status # <<>>
          /\ log[Len(log)].op = "rmtree"

\* The overlay was mounted, unmounted, the diff tool ran, and the directory
\* was removed, in this order.
C19_Witness ==
    /\ Terminated
    /\ temp = "deleted"
    /\ \E m, u, d, r \in DOMAIN log :
          /\ m < u /\ u < d /\ d < r
          /\ log[m].op = "disorderfs" /\ log[m].ok
          /\ log[u].op = "fusermount" /\ log[u].ok
          /\ log[d].op = "diffoscope"
          /\ log[r].op = "rmtree"

====
